---- MODULE Spec2Model ----
(***************************************************************************)
(* State-machine model of serve.py, the local-development static file      *)
(* server: main() (argument handling, serve-directory check, port          *)
(* selection by find_free_port, construction of the ThreadingHTTPServer,   *)
(* the readiness announcement, serve_forever and the shutdown path) and    *)
(* the standard-library classes main() instantiates                        *)
(* (ThreadingHTTPServer, SimpleHTTPRequestHandler), whose behaviour is     *)
(* transcribed from CPython's socketserver.py and http/server.py.          *)
(*                                                                         *)
(* The operating system is the environment: the ports other processes      *)
(* hold, the right to bind reserved ports, the content of the file system, *)
(* the clients, the interrupt signal.                                      *)
(*                                                                         *)
(* Three specifications share the actions:                                 *)
(*   Spec       the run of main() from its first line, with the port       *)
(*              environment, in which no client connects;                  *)
(*   ServeSpec  the run from the moment serve_forever() is entered after   *)
(*              `--port 2` found the port free (a state Spec reaches),     *)
(*              with clients; FairServeSpec adds the fairness the          *)
(*              interpreter gives the main thread;                         *)
(*   PathSpec   one handler answering one request, for every request path  *)
(*              up to MaxUrlLen components and every content of the        *)
(*              served directory.                                          *)
(*                                                                         *)
(* Not modelled: a failure of socket.socket() itself, symbolic links in    *)
(* the served directory, an interrupt before serve_forever() is entered    *)
(* and a second interrupt during the shutdown.                             *)
(***************************************************************************)
EXTENDS Integers, Sequences, FiniteSets, TLC

VARIABLES
    args,           \* parsed command line: [port, dir]
    privileged,     \* environment: may this process bind reserved ports
    fs,             \* environment: the file system, path -> kind
    otherBound,     \* environment: ports held by other processes
    pc,             \* position of the main thread
    serve_dir,      \* main(): serve_dir
    probe,          \* find_free_port(): the socket s, [st, port]
    ret,            \* find_free_port(): the value being returned
    exc,            \* exception in flight in the main thread
    port,           \* main(): port
    httpd,          \* the server's listening socket, [st, port]
    server_closed,  \* httpd.server_close() has been called
    stdout,         \* lines printed to standard output
    stderr,         \* lines printed to standard error
    exitCode,       \* exit status of the process, NoCode while it runs
    socketsOpened,  \* history: sockets this process has created
    selections,     \* history: calls of find_free_port
    errs,           \* history: the OSErrors bind() raised, in order, [at, errno]
    prefFree,       \* history: was the preferred port unbound when bind() tried it
    interrupted,    \* history: the interrupt signal has been delivered
    conn,           \* client connections, c -> [st, thread, daemon, req, status, body, seq]
    accepted,       \* history: number of connections accepted so far
    inflight        \* history: handlers running when the interrupt arrived

vars == << args, privileged, fs, otherBound, pc, serve_dir, probe, ret, exc,
           port, httpd, server_closed, stdout, stderr, exitCode,
           socketsOpened, selections, errs, prefFree, interrupted, conn, accepted, inflight >>

envVars   == << args, privileged, fs >>
portVars  == << probe, ret, port, httpd, server_closed, socketsOpened, selections,
               errs, prefFree >>
connVars  == << conn, accepted, inflight >>

(***************************************************************************)
(* Bounds                                                                  *)
(***************************************************************************)
MaxPort  == 3      \* ports are 0..MaxPort
MaxConns == 2      \* client connections

Ports          == 0 .. MaxPort
\* argparse's type=int accepts any integer: one value beyond the port range
RequestedPorts == 0 .. (MaxPort + 1)
\* ports reserved to privileged processes (1..1023 on a Unix host)
PrivPorts      == {1}
\* ports the OS hands out for a bind to port 0
EphemeralPorts == {p \in Ports : p > 1}
NoPort         == 0 - 1
NoCode         == 0 - 1
Conns          == 1 .. MaxConns

(***************************************************************************)
(* Paths and the file system                                               *)
(***************************************************************************)
\* a path is a sequence of components; a path argument or URL also says
\* whether it starts with "/"
Cwd == << "www" >>

Last(s)    == s[Len(s)]
Front(s)   == SubSeq(s, 1, Len(s) - 1)
IsPrefix(p, q) == Len(p) <= Len(q) /\ SubSeq(q, 1, Len(p)) = p

\* posixpath.normpath on a component list: "." dropped, ".." pops the
\* previous component, is dropped at the root, is kept in front of a
\* relative path
RECURSIVE NormFrom(_, _, _)
NormFrom(abs, stack, words) ==
    IF words = << >> THEN stack
    ELSE LET w == Head(words) IN
         NormFrom(abs,
                  IF w = "." THEN stack
                  ELSE IF w = ".."
                       THEN IF stack # << >> /\ Last(stack) # ".." THEN Front(stack)
                            ELSE IF abs THEN stack
                            ELSE Append(stack, "..")
                       ELSE Append(stack, w),
                  Tail(words))

normpath(abs, words) == NormFrom(abs, << >>, words)

\* os.path.abspath(path): normpath(join(getcwd(), path))
abspath(arg) == normpath(TRUE, (IF arg.abs THEN << >> ELSE Cwd) \o arg.words)

\* what the OS finds at a path (it resolves ".." itself):
\* "dir", "file", "locked" (a file open() refuses) or "none"
FsKind(path) ==
    LET p == normpath(TRUE, path) IN
    IF p \in DOMAIN fs THEN fs[p] ELSE "none"

\* os.path.isdir(serve_dir)
isdir(path) == FsKind(path) = "dir"

\* the file systems considered: /etc/passwd outside the served directory,
\* and every content of /www over the names etc, passwd, index.html
FsOf(etc, passwd, index) ==
    [p \in { << >>, <<"etc">>, <<"etc", "passwd">>, <<"www">>,
             <<"www", "etc">>, <<"www", "etc", "passwd">>,
             <<"www", "index.html">> } |->
        CASE p = <<"www", "etc">>           -> etc
          [] p = <<"www", "etc", "passwd">> -> passwd
          [] p = <<"www", "index.html">>    -> index
          [] p = <<"etc", "passwd">>        -> "file"
          [] OTHER                          -> "dir"]

FileSystems ==
    { FsOf(e, "none", i) : e \in {"none", "file"}, i \in {"none", "file"} }
    \cup { FsOf("dir", p, i) : p \in {"none", "file", "locked"}, i \in {"none", "file"} }

\* the file system of Spec and ServeSpec: an index file, a subdirectory and
\* a file the server may not read
DefaultFs == FsOf("dir", "locked", "file")

\* values of --dir: the default ".", a subdirectory, a directory reached
\* through "..", a file, a missing path
DirArgs ==
    { [abs |-> FALSE, words |-> << "." >>],
      [abs |-> FALSE, words |-> << "etc" >>],
      [abs |-> FALSE, words |-> << "..", "etc" >>],
      [abs |-> FALSE, words |-> << "index.html" >>],
      [abs |-> TRUE,  words |-> << "nope" >>] }

(***************************************************************************)
(* Sockets and bind(), as the OS answers them                              *)
(***************************************************************************)
NoSock == [st |-> "none", port |-> NoPort]

\* ports this process holds
OwnBound ==
    (IF probe.st = "bound" THEN {probe.port} ELSE {})
    \cup (IF httpd.st = "listening" THEN {httpd.port} ELSE {})

InUse == otherBound \cup OwnBound

\* may this process bind port p
Permitted(p) == privileged \/ p \notin PrivPorts

\* socket.bind(("127.0.0.1", p)): the outcomes the OS can give.
\*   p outside 0..65535       OverflowError (not an OSError)
\*   p reserved, unprivileged OSError EACCES
\*   p = 0                    any free ephemeral port, OSError if there is none
\*   p held by a socket       OSError EADDRINUSE
BindOutcomes(p) ==
    IF p \notin Ports
    THEN { [res |-> "OverflowError", errno |-> "none", port |-> NoPort] }
    ELSE IF ~Permitted(p)
    THEN { [res |-> "OSError", errno |-> "EACCES", port |-> NoPort] }
    ELSE IF p = 0
    THEN IF EphemeralPorts \ InUse = {}
         THEN { [res |-> "OSError", errno |-> "EADDRINUSE", port |-> NoPort] }
         ELSE { [res |-> "ok", errno |-> "none", port |-> q] : q \in EphemeralPorts \ InUse }
    ELSE IF p \in InUse
    THEN { [res |-> "OSError", errno |-> "EADDRINUSE", port |-> NoPort] }
    ELSE { [res |-> "ok", errno |-> "none", port |-> p] }

\* the history of bind errors after outcome o of the bind at place `at`
Raised(at, o) ==
    IF o.res = "OSError" THEN Append(errs, [at |-> at, errno |-> o.errno]) ELSE errs

(***************************************************************************)
(* main(), lines 41-44: the serve directory                                *)
(***************************************************************************)
\* line 42, by the kind of what is found at serve_dir
\* (variant: os.path.exists in place of os.path.isdir)
DirAccepted_exists(kind) == kind # "none"
DirAccepted(kind) == kind = "dir"

ErrorLine(dir) == [line |-> "Error: directory not found", path |-> dir]

ResolveDir ==
    /\ pc = "start"
    /\ serve_dir' = abspath(args.dir)
    /\ IF DirAccepted(FsKind(serve_dir'))
       THEN /\ pc' = "find_free_port"
            /\ UNCHANGED << stderr, exc >>
       ELSE /\ stderr' = Append(stderr, ErrorLine(serve_dir'))
            /\ exc' = "SystemExit"          \* sys.exit(1)
            /\ pc' = "exit"
    /\ UNCHANGED << envVars, otherBound, portVars, stdout, exitCode, interrupted, connVars >>

(***************************************************************************)
(* find_free_port(preferred), lines 20-27                                  *)
(***************************************************************************)
\* line 21: the probe socket is created
ProbeOpen ==
    /\ pc = "find_free_port"
    /\ probe' = [st |-> "open", port |-> NoPort]
    /\ socketsOpened' = socketsOpened + 1
    /\ selections' = selections + 1
    /\ pc' = "bind_preferred"
    /\ UNCHANGED << envVars, otherBound, serve_dir, ret, exc, port, httpd, server_closed,
                    stdout, stderr, exitCode, errs, prefFree, interrupted, connVars >>

\* lines 22-25: [pc, ret, exc] after the bind of the preferred port gave o
bind_preferred(preferred, o) ==
    IF o.res = "ok" THEN [pc |-> "probe_close", ret |-> preferred, exc |-> "none"]
    ELSE IF o.res = "OSError" THEN [pc |-> "bind_fallback", ret |-> NoPort, exc |-> "none"]
    ELSE [pc |-> "probe_close", ret |-> NoPort, exc |-> o.res]

ProbeBindPreferred ==
    /\ pc = "bind_preferred"
    /\ \E o \in BindOutcomes(args.port) :
         LET n == bind_preferred(args.port, o) IN
         /\ probe' = IF o.res = "ok" THEN [st |-> "bound", port |-> o.port] ELSE probe
         /\ errs' = Raised("preferred", o)
         /\ prefFree' = IF args.port \in InUse THEN "inuse" ELSE "free"
         /\ pc' = n.pc
         /\ ret' = n.ret
         /\ exc' = n.exc
    /\ UNCHANGED << envVars, otherBound, serve_dir, port, httpd, server_closed, stdout,
                    stderr, exitCode, socketsOpened, selections, interrupted, connVars >>

\* lines 26-27: [ret, exc] after the bind of port 0 gave o
\* (variant: returns preferred in place of s.getsockname()[1])
bind_fallback_keeps_preferred(preferred, o) ==
    IF o.res = "ok" THEN [ret |-> preferred, exc |-> "none"]
    ELSE [ret |-> NoPort, exc |-> o.res]
bind_fallback(preferred, o) ==
    IF o.res = "ok" THEN [ret |-> o.port, exc |-> "none"]   \* s.getsockname()[1]
    ELSE [ret |-> NoPort, exc |-> o.res]                    \* raised in the handler

ProbeBindFallback ==
    /\ pc = "bind_fallback"
    /\ \E o \in BindOutcomes(0) :
         LET n == bind_fallback(args.port, o) IN
         /\ probe' = IF o.res = "ok" THEN [st |-> "bound", port |-> o.port] ELSE probe
         /\ errs' = Raised("ephemeral", o)
         /\ ret' = n.ret
         /\ exc' = n.exc
    /\ pc' = "probe_close"
    /\ UNCHANGED << envVars, otherBound, serve_dir, port, httpd, server_closed, stdout,
                    stderr, exitCode, socketsOpened, selections, prefFree, interrupted,
                    connVars >>

\* line 21, contextlib.closing.__exit__: the socket after the with block,
\* left by a return (e = "none") or by an exception e
\* (variant: the socket is closed by a plain s.close() before the return)
closing_exit_on_return_only(s, e) ==
    IF e = "none" THEN [st |-> "closed", port |-> NoPort] ELSE s
closing_exit(s, e) == [st |-> "closed", port |-> NoPort]

\* the with block is left; line 46 assigns port, or the exception goes on
ProbeClose ==
    /\ pc = "probe_close"
    /\ probe' = closing_exit(probe, exc)
    /\ IF exc = "none"
       THEN port' = ret /\ pc' = "make_server"
       ELSE port' = port /\ pc' = "exit"
    /\ UNCHANGED << envVars, otherBound, serve_dir, ret, exc, httpd, server_closed, stdout,
                    stderr, exitCode, socketsOpened, selections, errs, prefFree,
                    interrupted, connVars >>

(***************************************************************************)
(* main(), lines 49-53: the server and the announcement                    *)
(***************************************************************************)
\* line 50, TCPServer.__init__: [pc, exc] after server_bind gave o; a failure
\* closes the socket and is raised again
\* (variant: a failed bind selects a port again)
server_bind_retries(o) ==
    IF o.res = "ok" THEN [pc |-> "announce", exc |-> "none"]
    ELSE [pc |-> "find_free_port", exc |-> "none"]
server_bind(o) ==
    IF o.res = "ok" THEN [pc |-> "announce", exc |-> "none"]
    ELSE [pc |-> "exit", exc |-> o.res]

MakeServer ==
    /\ pc = "make_server"
    /\ socketsOpened' = socketsOpened + 1
    /\ \E o \in BindOutcomes(port) :
         LET n == server_bind(o) IN
         /\ httpd' = IF o.res = "ok" THEN [st |-> "listening", port |-> o.port]
                     ELSE [st |-> "closed", port |-> NoPort]
         /\ server_closed' = (o.res # "ok")
         /\ errs' = Raised("server", o)
         /\ pc' = n.pc
         /\ exc' = n.exc
    /\ UNCHANGED << envVars, otherBound, serve_dir, probe, ret, port, stdout, stderr,
                    exitCode, selections, prefFree, interrupted, connVars >>

\* line 52: the port the readiness line names is main()'s port, not the
\* socket's
announced_port(p, sock) == p

ServingLine(dir, p) == [line |-> "Serving", dir |-> dir, port |-> p]
PlainLine(text)     == [line |-> text, dir |-> << >>, port |-> NoPort]

Announce ==
    /\ pc = "announce"
    /\ stdout' = stdout \o << ServingLine(serve_dir, announced_port(port, httpd)),
                             PlainLine("Press Ctrl+C to stop.") >>
    /\ pc' = "serving"
    /\ UNCHANGED << envVars, otherBound, serve_dir, exc, portVars, stderr, exitCode,
                    interrupted, connVars >>

(***************************************************************************)
(* Other processes bind and release ports while this one starts            *)
(***************************************************************************)
StartingUp ==
    pc \in {"start", "find_free_port", "bind_preferred", "bind_fallback",
            "probe_close", "make_server"}

OtherBind ==
    /\ StartingUp
    /\ \E p \in (Ports \ {0}) \ InUse : otherBound' = otherBound \cup {p}
    /\ UNCHANGED << envVars, pc, serve_dir, exc, portVars, stdout, stderr, exitCode,
                    interrupted, connVars >>

OtherRelease ==
    /\ StartingUp
    /\ \E p \in otherBound : otherBound' = otherBound \ {p}
    /\ UNCHANGED << envVars, pc, serve_dir, exc, portVars, stdout, stderr, exitCode,
                    interrupted, connVars >>

(***************************************************************************)
(* SimpleHTTPRequestHandler(directory=serve_dir), line 49: one request     *)
(***************************************************************************)
\* a request is malformed or a GET of a URL path: its components as sent,
\* whether it starts with "/", whether it ends with "/"
NoReq     == [kind |-> "none", abs |-> TRUE, words |-> << >>, slash |-> FALSE]
Malformed == [kind |-> "malformed", abs |-> TRUE, words |-> << >>, slash |-> FALSE]
Get(abs, words, slash) == [kind |-> "GET", abs |-> abs, words |-> words, slash |-> slash]

\* urllib.parse.unquote on one component
unquote(w) == IF w = "%2e%2e" THEN ".." ELSE w

Unquoted(words) == [i \in 1 .. Len(words) |-> unquote(words[i])]

IsSimpleName(w) == w \notin {".", ".."}

\* translate_path: unquote, normpath, then join to the directory every
\* component that is a simple name, ignoring the others
\* (variant: every component is joined)
translate_path_joins_all(dir, url) ==
    [path  |-> dir \o normpath(url.abs, Unquoted(url.words)),
     slash |-> url.slash \/ (url.abs /\ url.words = << >>)]
translate_path(dir, url) ==
    [path  |-> dir \o SelectSeq(normpath(url.abs, Unquoted(url.words)), IsSimpleName),
     slash |-> url.slash \/ (url.abs /\ url.words = << >>)]

\* a response: the status line sent, the file or directory whose content
\* follows the headers (<< >> if none), whether the handler raised instead
Response(status, body) == [status |-> status, body |-> body, raised |-> FALSE]
RaisedInHandler        == [status |-> 0, body |-> << >>, raised |-> TRUE]

\* send_head: open(path, 'rb'), OSError answered by 404
\* (variant: the OSError is not caught)
open_file_uncaught(path) ==
    IF FsKind(path) = "file" THEN Response(200, normpath(TRUE, path))
    ELSE RaisedInHandler
open_file(path) ==
    IF FsKind(path) = "file" THEN Response(200, normpath(TRUE, path))
    ELSE Response(404, << >>)

\* send_head: a directory is redirected to its "/" form, served through its
\* index.html or listed; a file is opened; a file named with a trailing "/"
\* is not found
send_head(dir, url) ==
    LET t == translate_path(dir, url) IN
    IF FsKind(t.path) = "dir"
    THEN IF ~t.slash THEN Response(301, << >>)
         ELSE IF FsKind(t.path \o << "index.html" >>) \in {"file", "locked"}
              THEN open_file(t.path \o << "index.html" >>)
              ELSE Response(200, normpath(TRUE, t.path))     \* list_directory
    ELSE IF t.slash THEN Response(404, << >>)
    ELSE open_file(t.path)

\* handle_one_request: parse_request answers a malformed request by 400
handle_one_request(dir, req) ==
    IF req.kind = "malformed" THEN Response(400, << >>) ELSE send_head(dir, req)

\* the request contains a parent-directory reference
HasTraversal(req) ==
    req.kind = "GET" /\ \E i \in 1 .. Len(req.words) : unquote(req.words[i]) = ".."

(***************************************************************************)
(* ThreadingHTTPServer, line 50: connections and their handlers            *)
(***************************************************************************)
\* http.server.ThreadingHTTPServer.daemon_threads
\* (variant: socketserver.ThreadingMixIn's default)
daemon_threads_off == FALSE
daemon_threads == TRUE

IdleConn ==
    [st |-> "idle", thread |-> "none", daemon |-> FALSE, req |-> NoReq,
     status |-> 0, body |-> << >>, seq |-> 0]

\* a handler that has not finished
Running(c) == conn[c].st \in {"reading", "streaming"}

\* the main thread is not inside a handler
MainFree == \A c \in Conns : ~(conn[c].thread = "main" /\ Running(c))

\* ThreadingMixIn.process_request: the n-th accepted connection c is handed
\* to a new thread, which first reads the request
\* (variant: BaseServer.process_request, the handler runs in the loop's thread)
process_request_inline(cn, c, n) ==
    [cn EXCEPT ![c].st = "reading", ![c].thread = "main",
               ![c].daemon = FALSE, ![c].seq = n]
process_request(cn, c, n) ==
    [cn EXCEPT ![c].st = "reading", ![c].thread = "worker",
               ![c].daemon = daemon_threads, ![c].seq = n]

\* a client connects: the kernel queues the connection on the listening socket
Connect(c) ==
    /\ conn[c].st = "idle"
    /\ httpd.st = "listening"
    /\ pc # "exited"
    /\ conn' = [conn EXCEPT ![c].st = "backlog"]
    /\ UNCHANGED << envVars, otherBound, pc, serve_dir, exc, portVars, stdout, stderr,
                    exitCode, interrupted, accepted, inflight >>

\* serve_forever, line 56: select, get_request, process_request
Accept(c) ==
    /\ pc = "serving"
    /\ MainFree
    /\ conn[c].st = "backlog"
    /\ conn' = process_request(conn, c, accepted + 1)
    /\ accepted' = accepted + 1
    /\ UNCHANGED << envVars, otherBound, pc, serve_dir, exc, portVars, stdout, stderr,
                    exitCode, interrupted, inflight >>

\* the handler of c may take a step
ThreadRuns(c) ==
    /\ pc # "exited"
    /\ conn[c].thread = "main" => pc = "serving"

\* the client's request r arrives and the handler answers it: the status
\* line and headers are sent; a 200 is followed by the body
HandleRequest(c, r) ==
    /\ conn[c].st = "reading"
    /\ ThreadRuns(c)
    /\ LET a == handle_one_request(serve_dir, r) IN
       conn' = [conn EXCEPT ![c].req = r,
                            ![c].status = a.status,
                            ![c].body = a.body,
                            ![c].st = IF a.raised THEN "aborted"
                                      ELSE IF a.status = 200 THEN "streaming"
                                      ELSE "done"]
    /\ UNCHANGED << envVars, otherBound, pc, serve_dir, exc, portVars, stdout, stderr,
                    exitCode, interrupted, accepted, inflight >>

\* copyfile has written the whole body
StreamDone(c) ==
    /\ conn[c].st = "streaming"
    /\ ThreadRuns(c)
    /\ conn' = [conn EXCEPT ![c].st = "done"]
    /\ UNCHANGED << envVars, otherBound, pc, serve_dir, exc, portVars, stdout, stderr,
                    exitCode, interrupted, accepted, inflight >>

\* copyfile raises (the client went away, the disk failed):
\* process_request_thread logs the error and closes the connection
StreamFail(c) ==
    /\ conn[c].st = "streaming"
    /\ ThreadRuns(c)
    /\ conn' = [conn EXCEPT ![c].st = "aborted"]
    /\ stderr' = Append(stderr, ErrorLine(<< "Exception occurred during processing of request" >>))
    /\ UNCHANGED << envVars, otherBound, pc, serve_dir, exc, portVars, stdout,
                    exitCode, interrupted, accepted, inflight >>

(***************************************************************************)
(* main(), lines 55-60: the server loop and the way out of it              *)
(***************************************************************************)
\* Ctrl+C while serve_forever runs: KeyboardInterrupt in the main thread
ServeInterrupt ==
    /\ pc = "serving"
    /\ ~interrupted
    /\ interrupted' = TRUE
    /\ inflight' = {c \in Conns : Running(c)}
    /\ pc' = "except"
    /\ UNCHANGED << envVars, otherBound, serve_dir, exc, portVars, stdout, stderr,
                    exitCode, conn, accepted >>

\* serve_forever raises something else (select fails, no memory)
ServeRaise ==
    /\ pc = "serving"
    /\ exc' = "Exception"
    /\ pc' = "finally"
    /\ UNCHANGED << envVars, otherBound, serve_dir, portVars, stdout, stderr,
                    exitCode, interrupted, connVars >>

\* lines 57-58
ExceptKeyboardInterrupt ==
    /\ pc = "except"
    /\ stdout' = Append(stdout, PlainLine("Shutting down..."))
    /\ pc' = "finally"
    /\ UNCHANGED << envVars, otherBound, serve_dir, exc, portVars, stderr,
                    exitCode, interrupted, connVars >>

\* line 60, TCPServer.server_close: the listening socket after the call
\* (variant: the socket is left open)
server_close_skipped(sock) == sock
server_close(sock) == [st |-> "closed", port |-> NoPort]

\* connections still queued on a socket that is closed are reset
ResetBacklog(cn) ==
    [c \in Conns |-> IF cn[c].st = "backlog" THEN [cn[c] EXCEPT !.st = "reset"] ELSE cn[c]]

\* lines 59-60: finally, httpd.server_close() closes the socket ...
ServerClose ==
    /\ pc = "finally"
    /\ httpd' = server_close(httpd)
    /\ server_closed' = TRUE
    /\ conn' = IF httpd'.st = "closed" THEN ResetBacklog(conn) ELSE conn
    /\ pc' = "join"
    /\ UNCHANGED << envVars, otherBound, serve_dir, exc, probe, ret, port, stdout, stderr,
                    exitCode, socketsOpened, selections, errs, prefFree, interrupted,
                    accepted, inflight >>

\* ... and ThreadingMixIn.server_close joins the threads it tracks: the
\* non-daemon ones
JoinReady ==
    \A c \in Conns : (conn[c].thread = "worker" /\ ~conn[c].daemon) => ~Running(c)

JoinThreads ==
    /\ pc = "join"
    /\ JoinReady
    /\ pc' = "exit"
    /\ UNCHANGED << envVars, otherBound, serve_dir, exc, portVars, stdout, stderr,
                    exitCode, interrupted, connVars >>

\* the exit status: 0 when main() returns, 1 for sys.exit(1) and for an
\* exception nobody caught
exit_status(e) == IF e = "none" THEN 0 ELSE 1

\* the process ends: the interpreter waits for non-daemon threads only,
\* daemon threads stop where they are, the OS closes every socket
Exit ==
    /\ pc = "exit"
    /\ JoinReady
    /\ exitCode' = exit_status(exc)
    /\ conn' = [c \in Conns |->
                  IF Running(c) THEN [conn[c] EXCEPT !.st = "abandoned"]
                  ELSE IF conn[c].st = "backlog" THEN [conn[c] EXCEPT !.st = "reset"]
                  ELSE conn[c]]
    /\ httpd' = IF httpd.st = "listening" THEN [st |-> "closed", port |-> NoPort] ELSE httpd
    /\ probe' = IF probe.st \in {"open", "bound"} THEN [st |-> "closed", port |-> NoPort]
                ELSE probe
    /\ pc' = "exited"
    /\ UNCHANGED << envVars, otherBound, serve_dir, exc, ret, port, server_closed, stdout,
                    stderr, socketsOpened, selections, errs, prefFree, interrupted,
                    accepted, inflight >>

(***************************************************************************)
(* Specifications                                                          *)
(***************************************************************************)
\* the process as main() begins, after parse_args
Init ==
    /\ args \in [port : RequestedPorts, dir : DirArgs]
    /\ privileged \in BOOLEAN
    /\ fs = DefaultFs
    /\ otherBound = {}
    /\ pc = "start"
    /\ serve_dir = << >>
    /\ probe = NoSock
    /\ ret = NoPort
    /\ exc = "none"
    /\ port = NoPort
    /\ httpd = NoSock
    /\ server_closed = FALSE
    /\ stdout = << >>
    /\ stderr = << >>
    /\ exitCode = NoCode
    /\ socketsOpened = 0
    /\ selections = 0
    /\ errs = << >>
    /\ prefFree = "unset"
    /\ interrupted = FALSE
    /\ conn = [c \in Conns |-> IdleConn]
    /\ accepted = 0
    /\ inflight = {}

Startup ==
    \/ ResolveDir
    \/ ProbeOpen
    \/ ProbeBindPreferred
    \/ ProbeBindFallback
    \/ ProbeClose
    \/ MakeServer
    \/ Announce

Shutdown ==
    \/ ServeInterrupt
    \/ ServeRaise
    \/ ExceptKeyboardInterrupt
    \/ ServerClose
    \/ JoinThreads
    \/ Exit

Next ==
    \/ Startup
    \/ OtherBind
    \/ OtherRelease
    \/ Shutdown

Spec == Init /\ [][Next]_vars

\* the state in which serve_forever is entered after `serve.py --port p`
\* found p free, in the directory /www
ServingState(p) ==
    /\ args = [port |-> p, dir |-> [abs |-> FALSE, words |-> << "." >>]]
    /\ privileged = FALSE
    /\ otherBound = {}
    /\ pc = "serving"
    /\ serve_dir = Cwd
    /\ probe = [st |-> "closed", port |-> NoPort]
    /\ ret = p
    /\ exc = "none"
    /\ port = p
    /\ httpd = [st |-> "listening", port |-> p]
    /\ server_closed = FALSE
    /\ stdout = << ServingLine(Cwd, p), PlainLine("Press Ctrl+C to stop.") >>
    /\ stderr = << >>
    /\ exitCode = NoCode
    /\ socketsOpened = 2
    /\ selections = 1
    /\ errs = << >>
    /\ prefFree = "free"
    /\ interrupted = FALSE
    /\ accepted = 0
    /\ inflight = {}

\* the kinds of request of ServeSpec: malformed, "/", "/etc/", "/etc",
\* "/etc/passwd", "/nope", "/../../etc/passwd"
ServeRequests ==
    { Malformed,
      Get(TRUE, << >>, TRUE),
      Get(TRUE, << "etc" >>, TRUE),
      Get(TRUE, << "etc" >>, FALSE),
      Get(TRUE, << "etc", "passwd" >>, FALSE),
      Get(TRUE, << "nope" >>, FALSE),
      Get(TRUE, << "..", "..", "etc", "passwd" >>, FALSE) }

InitServe ==
    /\ ServingState(2)
    /\ fs = DefaultFs
    /\ conn = [c \in Conns |-> IdleConn]

Clients ==
    \E c \in Conns :
        \/ Connect(c)
        \/ Accept(c)
        \/ \E r \in ServeRequests : HandleRequest(c, r)
        \/ StreamDone(c)
        \/ StreamFail(c)

NextServe == Clients \/ Shutdown

ServeSpec == InitServe /\ [][NextServe]_vars

\* the main thread is scheduled as long as the process lives
MainStep == ExceptKeyboardInterrupt \/ ServerClose \/ JoinThreads \/ Exit

FairServeSpec == ServeSpec /\ WF_vars(MainStep)

\* every request path of up to MaxUrlLen components over these names, with
\* and without leading and trailing "/", against every file system
MaxUrlLen == 4
UrlWords  == {"..", "%2e%2e", "etc", "passwd"}

RECURSIVE SeqsUpTo(_, _)
SeqsUpTo(S, n) ==
    IF n = 0 THEN { << >> }
    ELSE LET shorter == SeqsUpTo(S, n - 1) IN
         shorter \cup { Append(q, w) : q \in shorter, w \in S }

PathRequests ==
    { Get(a, ws, sl) : a \in BOOLEAN, ws \in SeqsUpTo(UrlWords, MaxUrlLen), sl \in BOOLEAN }
    \ { Get(FALSE, << >>, sl) : sl \in BOOLEAN }

\* one handler that has just been handed the first connection
InitPath ==
    /\ ServingState(2)
    /\ fs \in FileSystems
    /\ conn = process_request([c \in Conns |-> IdleConn], 1, 1)

NextPath == \E r \in PathRequests : HandleRequest(1, r)

PathSpec == InitPath /\ [][NextPath]_vars

(***************************************************************************)
(* Properties                                                              *)
(***************************************************************************)
InsideRoot(path) == IsPrefix(serve_dir, path) /\ \A i \in 1 .. Len(path) : path[i] # ".."

TraversalRequests == { c \in Conns : HasTraversal(conn[c].req) }

Returning == pc = "probe_close" /\ exc = "none"

\* C2, as stated: a preferred port that is free at the time of the call is
\* returned as is; for a preferred port in use a different port is returned,
\* one the OS assigned and that nobody else holds.
C2_FreeMeansPreferred ==
    Returning =>
        /\ prefFree = "free" => ret = args.port
        /\ prefFree = "inuse" =>
              /\ ret # args.port
              /\ ret \notin otherBound
              /\ probe = [st |-> "bound", port |-> ret]

\* C2, amended: a preferred port in 1..65535 that is free when bind tries it
\* and that the process may bind is returned as is; for a preferred port
\* whose bind raises OSError (in use, or reserved and the process
\* unprivileged) the ephemeral port the OS assigned to the second bind is
\* returned, which nobody else holds when it is chosen and which differs from
\* the preferred port if that one is reserved or still in use. A preferred
\* port of 0 is returned as 0 when the first bind succeeds.
C2_BindableMeansPreferred ==
    Returning =>
        /\ (args.port # 0 /\ prefFree = "free" /\ Permitted(args.port)) => ret = args.port
        /\ (args.port # 0 /\ (prefFree = "inuse" \/ ~Permitted(args.port))) =>
              /\ ret \in EphemeralPorts
              /\ ret \notin otherBound
              /\ probe = [st |-> "bound", port |-> ret]
              /\ (args.port \in otherBound \/ ~Permitted(args.port)) => ret # args.port
        /\ (args.port = 0 /\ errs = << >>) => ret = 0

\* a free reserved port was refused and an ephemeral port is returned
C2_Witness ==
    /\ Returning
    /\ prefFree = "free"
    /\ ~Permitted(args.port)
    /\ ret \in EphemeralPorts

\* the ports named by the readiness lines printed so far
Announced == { stdout[i].port : i \in { j \in 1 .. Len(stdout) : stdout[j].line = "Serving" } }

\* C3: once readiness is announced and while the server runs, the announced
\* port is a valid port, the one the server's socket is bound to and
\* listening on, for every requested port in 0..65535, 0 included.
C3_AnnouncedPortIsBound ==
    (pc = "serving" /\ args.port \in Ports) =>
        /\ Announced # {}
        /\ \A p \in Announced :
              /\ p \in Ports \ {0}
              /\ httpd = [st |-> "listening", port |-> p]

\* C4: when --dir resolves to something that is not a directory, the process
\* prints an error naming the resolved path and exits with status 1; it
\* creates no socket, announces nothing and never reaches the server loop.
C4_BadDirNoStartup ==
    FsKind(abspath(args.dir)) # "dir" =>
        /\ socketsOpened = 0
        /\ probe = NoSock
        /\ httpd = NoSock
        /\ stdout = << >>
        /\ pc \in {"start", "exit", "exited"}
        /\ pc # "start" => stderr = << ErrorLine(abspath(args.dir)) >>
        /\ pc = "exited" => exitCode = 1

\* --dir names a file: the process has ended with status 1
C4_Witness ==
    /\ FsKind(abspath(args.dir)) = "file"
    /\ pc = "exited"
    /\ exitCode = 1
    /\ socketsOpened = 0

\* C5: once the loop runs, an interrupt leads to the process ending with
\* status 0, the listening socket released by server_close, and no
\* connection accepted after the interrupt; and on every way out of the loop
\* server_close has released the listening socket before main() ends.
C5_InterruptShutsDown ==
    /\ interrupted ~> (pc = "exited" /\ exitCode = 0 /\ server_closed /\ httpd.st = "closed")
    /\ [](pc \in {"join", "exit", "exited"} => (server_closed /\ httpd.st = "closed"))
    /\ [][interrupted => accepted' = accepted]_vars

\* the process has ended with status 0 after an interrupt
C5_Witness ==
    /\ interrupted
    /\ pc = "exited"
    /\ exitCode = 0
    /\ server_closed
    /\ httpd.st = "closed"

\* the ephemeral bind or the server's bind raised OSError, or a bind raised
\* OverflowError
StartupBindFailed ==
    \/ \E i \in 1 .. Len(errs) : errs[i].at \in {"ephemeral", "server"}
    \/ exc = "OverflowError"

\* C6: a failure of the ephemeral bind or of the server's bind is fatal and
\* not retried: the exception goes up, nothing is announced, the server loop
\* does not start, find_free_port is not called again and the process ends
\* with a non-zero status.
C6_BindFailureFatal ==
    StartupBindFailed =>
        /\ pc \in {"probe_close", "exit", "exited"}
        /\ exc \in {"OSError", "OverflowError"}
        /\ stdout = << >>
        /\ httpd.st # "listening"
        /\ selections = 1
        /\ pc = "exited" => exitCode \notin {0, NoCode}

\* the probe found the port free, another process took it, the server's
\* bind failed and the process has ended
C6_Witness ==
    /\ pc = "exited"
    /\ prefFree = "free"
    /\ errs = << [at |-> "server", errno |-> "EADDRINUSE"] >>
    /\ port \in otherBound
    /\ exitCode = 1

\* C7, as stated: every handler in flight when the interrupt arrived
\* completes; none is cut off by the end of the process.
C7_InflightComplete ==
    pc = "exited" => \A c \in inflight : conn[c].st # "abandoned"

\* C7, amended: after the interrupt the main thread closes the listening
\* socket and ends without waiting for the handlers in flight; none of them
\* is stopped while the process lives, and each has either finished or is
\* abandoned, its response unfinished, when the process ends.
C7_InflightFinishOrAbandoned ==
    /\ pc \in {"join", "exit"} => JoinReady
    /\ \A c \in Conns : conn[c].st = "abandoned" => pc = "exited"
    /\ pc = "exited" =>
          \A c \in inflight : conn[c].st \in {"done", "aborted", "abandoned"}

\* the process has ended and left a handler that was in flight unfinished
C7_Witness ==
    /\ pc = "exited"
    /\ interrupted
    /\ \E c \in inflight : conn[c].st = "abandoned"

\* C8: every handler runs on a thread of its own, so that while the loop
\* runs a queued connection can be accepted whatever the other handlers are
\* doing.
C8_AcceptNeverBlocked ==
    /\ \A c \in Conns : Running(c) => conn[c].thread = "worker"
    /\ \A c \in Conns : (pc = "serving" /\ conn[c].st = "backlog") => ENABLED Accept(c)

\* a handler still waits for its client while a connection accepted after
\* it has been served
C8_Witness ==
    /\ pc = "serving"
    /\ \E c, d \in Conns :
          /\ conn[c].st = "reading"
          /\ conn[d].st = "done"
          /\ conn[d].status = 200
          /\ conn[d].seq > conn[c].seq

\* the request of c failed: malformed, a traversal path, a missing or
\* unreadable file, or an I/O failure while the response was written
RequestFailed(c) ==
    /\ conn[c].st \in {"done", "aborted"}
    /\ \/ conn[c].req.kind = "malformed"
       \/ HasTraversal(conn[c].req)
       \/ conn[c].req.kind = "GET"
            /\ FsKind(serve_dir \o conn[c].req.words) \in {"none", "locked"}
       \/ conn[c].st = "aborted"

C10_ProbeClosed ==
    /\ pc \in {"bind_preferred", "bind_fallback", "probe_close", "make_server"}
          => socketsOpened = 1
    /\ (selections > 0 /\ pc \in {"make_server", "announce", "serving", "exit"})
          => probe.st = "closed"
    /\ pc = "make_server" => port \notin OwnBound

\* the fallback bind raised and the probe socket is closed as the exception
\* leaves the function
C10_Witness ==
    /\ pc = "exit"
    /\ exc = "OSError"
    /\ errs # << >>
    /\ errs[Len(errs)].at = "ephemeral"
    /\ probe.st = "closed"

====
